---- MODULE Spec2Model ----
(***************************************************************************)
(* A model of the cgmath vector library (src/src/vec.rs, src/src/mask.rs,  *)
(* src/src/num/mod.rs).                                                    *)
(*                                                                         *)
(* The library is a set of pure operations on the value types Vec2<T>,     *)
(* Vec3<T> and Vec4<T>.  A vector is modelled as a record with the fields  *)
(* of the struct (x, y [, z [, w]]).  A caller holds operands (a, b, s, m, *)
(* f), makes one call (pc goes from "ready" to "done") and receives the    *)
(* result in ret.  st tells whether the call returned ("ok") or unwound    *)
(* with a panic.  calls is the sequence of argument pairs the closure f    *)
(* was applied to during the call and ndiv the number of scalar divisions  *)
(* the call executed.                                                      *)
(***************************************************************************)
EXTENDS Integers, Sequences, FiniteSets, TLC

VARIABLES pc, op, ty, build, a, b, s, m, f, ret, st, calls, ndiv

vars == <<pc, op, ty, build, a, b, s, m, f, ret, st, calls, ndiv>>

operands == <<ty, build, a, b, s, m, f>>

(***************************************************************************)
(* Vector values: struct Vec2 / Vec3 / Vec4 and the constructor new.       *)
(***************************************************************************)
Vec2(x, y) == [x |-> x, y |-> y]

Vec3(x, y, z) == [x |-> x, y |-> y, z |-> z]

Vec4(x, y, z, w) == [x |-> x, y |-> y, z |-> z, w |-> w]

\* The number of components of a vector ($N of the vec! invocations).
dim(v) == Cardinality(DOMAIN v)

\* The fields of a vector in declaration order ($($field),+ of vec!).
fields(v) ==
    IF "w" \in DOMAIN v THEN <<"x", "y", "z", "w">>
    ELSE IF "z" \in DOMAIN v THEN <<"x", "y", "z">>
    ELSE <<"x", "y">>

\* $(self.$field),+ : the components as an expression list, in order.
comps(v) == [i \in 1..dim(v) |-> v[fields(v)[i]]]

\* All vectors of 2, 3 and 4 components over the set S.
VecsOf(n, S) ==
    CASE n = 2 -> {Vec2(x, y) : x \in S, y \in S}
      [] n = 3 -> {Vec3(x, y, z) : x \in S, y \in S, z \in S}
      [] n = 4 -> {Vec4(x, y, z, w) : x \in S, y \in S, z \in S, w \in S}

Vecs(S) == VecsOf(2, S) \cup VecsOf(3, S) \cup VecsOf(4, S)

\* dup(u): broadcasts u to every component of a vector shaped like v.
dup(v, u) == [fld \in DOMAIN v |-> u]

(***************************************************************************)
(* reduce and fold.                                                        *)
(***************************************************************************)
\* Largest magnitude of a component handed to reduce / fold.
MaxFoldComp == 2

\* The closures a caller passes to reduce / fold; none is assumed to be
\* commutative or associative.
Fns == {"sub", "mix", "fst", "snd"}

Apply(fn, l, r) ==
    CASE fn = "sub" -> l - r
      [] fn = "mix" -> 2 * l + r
      [] fn = "fst" -> l
      [] fn = "snd" -> r

\* fold!(f, acc, e, tail...): acc is [val, calls], the accumulator and the
\* applications of f made so far.
RECURSIVE fold_macro(_, _, _)
fold_macro(fn, acc, es) ==
    IF es = <<>> THEN acc
    ELSE fold_macro(fn,
                    [val   |-> Apply(fn, acc.val, Head(es)),
                     calls |-> Append(acc.calls, <<acc.val, Head(es)>>)],
                    Tail(es))

reduce_reversed(self, fn) ==
    LET es == comps(self)
        rv == [i \in 1..Len(es) |-> es[Len(es) + 1 - i]]
    IN  fold_macro(fn, [val |-> Head(rv), calls |-> <<>>], Tail(rv))

\* reduce: fold!(f, $(self.$field),+)
reduce(self, fn) ==
    LET es == comps(self)
    IN  fold_macro(fn, [val |-> Head(es), calls |-> <<>>], Tail(es))

fold_seed_last(self, acc, fn) ==
    fold_macro(fn, [val |-> self.x, calls |-> <<>>], Tail(comps(self)) \o <<acc>>)

\* fold: fold!(f, acc, $(self.$field),+)
fold(self, acc, fn) ==
    fold_macro(fn, [val |-> acc, calls |-> <<>>], comps(self))

FoldComp == (0 - MaxFoldComp)..MaxFoldComp

FoldVecs == Vecs(FoldComp) \cup {Vec3(5, 3, 2)}

InitFold ==
    /\ pc = "ready" /\ op = "new"
    /\ ty = "i32" /\ build = "release"
    /\ a \in FoldVecs /\ b = a
    /\ s \in {-1, 0, 1}
    /\ m = dup(a, FALSE)
    /\ f \in Fns
    /\ ret = 0 /\ st = "ok" /\ calls = <<>> /\ ndiv = 0

Reduce ==
    /\ pc = "ready"
    /\ pc' = "done" /\ op' = "reduce"
    /\ ret' = reduce(a, f).val
    /\ calls' = reduce(a, f).calls
    /\ st' = "ok" /\ ndiv' = 0
    /\ UNCHANGED operands

Fold ==
    /\ pc = "ready"
    /\ pc' = "done" /\ op' = "fold"
    /\ ret' = fold(a, s, f).val
    /\ calls' = fold(a, s, f).calls
    /\ st' = "ok" /\ ndiv' = 0
    /\ UNCHANGED operands

NextFold == Reduce \/ Fold

SpecFold == InitFold /\ [][NextFold]_vars

\* C1: reduce(f) is the left fold of the components in declaration order
\* seeded with x -- f(x,y), f(f(x,y),z), f(f(f(x,y),z),w) -- and applies f
\* exactly N-1 times, for closures that are neither commutative nor
\* associative; Vec3(5,3,2).reduce(acc - c) is 0.
C1_ReduceLeftFold ==
    (pc = "done" /\ op = "reduce") =>
        /\ dim(a) = 2 => ret = Apply(f, a.x, a.y)
        /\ dim(a) = 3 => ret = Apply(f, Apply(f, a.x, a.y), a.z)
        /\ dim(a) = 4 => ret = Apply(f, Apply(f, Apply(f, a.x, a.y), a.z), a.w)
        /\ Len(calls) = dim(a) - 1
        /\ calls[1] = <<a.x, a.y>>
        /\ (a = Vec3(5, 3, 2) /\ f = "sub") => ret = 0

C1_Witness ==
    /\ pc = "done" /\ op = "reduce" /\ f = "sub"
    /\ a = Vec4(1, 2, -1, 2) /\ ret = -2 /\ Len(calls) = 3

\* C2: fold(seed, f) is the left fold of the components in the order x, y,
\* z, w starting from the external seed, which is the left argument of the
\* first application; f is applied exactly N times;
\* Vec3(5,3,2).fold(0, acc - c) is -10.
C2_FoldLeftFromSeed ==
    (pc = "done" /\ op = "fold") =>
        /\ dim(a) = 2 => ret = Apply(f, Apply(f, s, a.x), a.y)
        /\ dim(a) = 3 => ret = Apply(f, Apply(f, Apply(f, s, a.x), a.y), a.z)
        /\ dim(a) = 4 =>
              ret = Apply(f, Apply(f, Apply(f, Apply(f, s, a.x), a.y), a.z), a.w)
        /\ Len(calls) = dim(a)
        /\ calls[1] = <<s, a.x>>
        /\ (a = Vec3(5, 3, 2) /\ f = "sub" /\ s = 0) => ret = -10

C2_Witness ==
    /\ pc = "done" /\ op = "fold" /\ f = "sub" /\ s = 0
    /\ a = Vec3(5, 3, 2) /\ ret = -10 /\ Len(calls) = 3

(***************************************************************************)
(* A call that returns value v without applying a closure or dividing.     *)
(***************************************************************************)
Returns(name, v) ==
    /\ pc = "ready"
    /\ pc' = "done" /\ op' = name
    /\ ret' = v
    /\ st' = "ok" /\ calls' = <<>> /\ ndiv' = 0
    /\ UNCHANGED operands

(***************************************************************************)
(* select and the Not of a mask.                                           *)
(***************************************************************************)
\* Components handed to select are 0..MaxSelComp.
MaxSelComp == 1

Masks(v) == [DOMAIN v -> BOOLEAN]

\* impl ops::Not for $vec<bool>
not(self) == [fld \in DOMAIN self |-> ~self[fld]]

select_swapped(self, rhs, mask) ==
    [fld \in DOMAIN self |-> IF mask[fld] THEN rhs[fld] ELSE self[fld]]

\* select: $field: if mask.$field { self.$field } else { rhs.$field }
select(self, rhs, mask) ==
    [fld \in DOMAIN self |-> IF mask[fld] THEN self[fld] ELSE rhs[fld]]

InitSelect ==
    /\ pc = "ready" /\ op = "new"
    /\ ty = "i32" /\ build = "release"
    /\ a \in Vecs(0..MaxSelComp)
    /\ b \in VecsOf(dim(a), 0..MaxSelComp)
    /\ s = 0
    /\ m \in Masks(a)
    /\ f = "fst"
    /\ ret = 0 /\ st = "ok" /\ calls = <<>> /\ ndiv = 0

Select == Returns("select", select(a, b, m))

SelectNot == Returns("select_not", select(b, a, not(m)))

NextSelect == Select \/ SelectNot

SpecSelect == InitSelect /\ [][NextSelect]_vars

\* C6: select(rhs, mask) takes component i from self where mask[i] is true
\* and from rhs where it is false, independently per component; with an
\* all-true mask it returns self, with an all-false mask rhs, and
\* a.select(b, m) == b.select(a, !m).
C6_SelectPerComponent ==
    /\ (pc = "done" /\ op = "select") =>
          /\ DOMAIN ret = DOMAIN a
          /\ \A fld \in DOMAIN a :
                /\ m[fld] => ret[fld] = a[fld]
                /\ ~m[fld] => ret[fld] = b[fld]
          /\ (\A fld \in DOMAIN m : m[fld]) => ret = a
          /\ (\A fld \in DOMAIN m : ~m[fld]) => ret = b
          /\ ret = select(b, a, not(m))
    /\ (pc = "done" /\ op = "select_not") =>
          \A fld \in DOMAIN a : ret[fld] = IF m[fld] THEN a[fld] ELSE b[fld]

C6_Witness ==
    /\ pc = "done" /\ op = "select"
    /\ a = Vec4(1, 1, 1, 1) /\ b = Vec4(0, 0, 0, 0)
    /\ m = Vec4(TRUE, FALSE, FALSE, TRUE)
    /\ ret = Vec4(1, 0, 0, 1)

(***************************************************************************)
(* set_<axis>, and extending and truncating (macros set! and cvt!).        *)
(***************************************************************************)
\* Components handed to the setters and conversions are 0..MaxShapeComp.
MaxShapeComp == 2

ShapeComp == 0..MaxShapeComp

\* set!: set_x of the Vec2, Vec3 and Vec4 arms.
set_x(self, x) ==
    CASE dim(self) = 2 -> [x |-> x, y |-> self.y]
      [] dim(self) = 3 -> [x |-> x, y |-> self.y, z |-> self.z]
      [] dim(self) = 4 -> [x |-> x, y |-> self.y, z |-> self.z, w |-> self.w]

\* set!: set_y of the Vec2, Vec3 and Vec4 arms.
set_y(self, y) ==
    CASE dim(self) = 2 -> [x |-> self.x, y |-> y]
      [] dim(self) = 3 -> [x |-> self.x, y |-> y, z |-> self.z]
      [] dim(self) = 4 -> [x |-> self.x, y |-> y, z |-> self.z, w |-> self.w]

set_z_clobbers_w(self, z) ==
    CASE dim(self) = 3 -> [x |-> self.x, y |-> self.y, z |-> z]
      [] dim(self) = 4 -> [x |-> self.x, y |-> self.y, z |-> z, w |-> z]

\* set!: set_z of the Vec3 and Vec4 arms.
set_z(self, z) ==
    CASE dim(self) = 3 -> [x |-> self.x, y |-> self.y, z |-> z]
      [] dim(self) = 4 -> [x |-> self.x, y |-> self.y, z |-> z, w |-> self.w]

\* set!: set_w of the Vec4 arm.
set_w(self, w) == [x |-> self.x, y |-> self.y, z |-> self.z, w |-> w]

\* The setters set! generates for the type of self.
setters(self) ==
    CASE dim(self) = 2 -> {"set_x", "set_y"}
      [] dim(self) = 3 -> {"set_x", "set_y", "set_z"}
      [] dim(self) = 4 -> {"set_x", "set_y", "set_z", "set_w"}

vec3_drops_y(self, z) == [x |-> self.x, y |-> z, z |-> z]

\* cvt!(Vec2): vec3 extends the 2D vector with a z component.
vec3(self, z) == [x |-> self.x, y |-> self.y, z |-> z]

\* cvt!(Vec3): vec4 extends the 3D vector with a w component.
vec4(self, w) == [x |-> self.x, y |-> self.y, z |-> self.z, w |-> w]

\* cvt!(Vec3) and cvt!(Vec4): xy drops z (and w).
xy(self) == [x |-> self.x, y |-> self.y]

xyz_rotated(self) == [x |-> self.y, y |-> self.z, z |-> self.w]

\* cvt!(Vec4): xyz drops w.
xyz(self) == [x |-> self.x, y |-> self.y, z |-> self.z]

\* The conversions cvt! generates for the type of self, each with the
\* number of arguments it takes besides self.
cvt(self) ==
    CASE dim(self) = 2 -> {<<"vec3", 1>>}
      [] dim(self) = 3 -> {<<"vec4", 1>>, <<"xy", 0>>}
      [] dim(self) = 4 -> {<<"xy", 0>>, <<"xyz", 0>>}

InitShape ==
    /\ pc = "ready" /\ op = "new"
    /\ ty = "i32" /\ build = "release"
    /\ a \in Vecs(ShapeComp) /\ b = a
    /\ s \in ShapeComp
    /\ m = dup(a, FALSE)
    /\ f = "fst"
    /\ ret = 0 /\ st = "ok" /\ calls = <<>> /\ ndiv = 0

SetX == "set_x" \in setters(a) /\ Returns("set_x", set_x(a, s))

SetY == "set_y" \in setters(a) /\ Returns("set_y", set_y(a, s))

SetZ == "set_z" \in setters(a) /\ Returns("set_z", set_z(a, s))

SetW == "set_w" \in setters(a) /\ Returns("set_w", set_w(a, s))

ToVec3 == <<"vec3", 1>> \in cvt(a) /\ Returns("vec3", vec3(a, s))

ToVec4 == <<"vec4", 1>> \in cvt(a) /\ Returns("vec4", vec4(a, s))

Xy == <<"xy", 0>> \in cvt(a) /\ Returns("xy", xy(a))

Xyz == <<"xyz", 0>> \in cvt(a) /\ Returns("xyz", xyz(a))

NextShape == SetX \/ SetY \/ SetZ \/ SetW \/ ToVec3 \/ ToVec4 \/ Xy \/ Xyz

SpecShape == InitShape /\ [][NextShape]_vars

\* v.name(u) for the setter called name.
CallSet(name, v, u) ==
    CASE name = "set_x" -> set_x(v, u) [] name = "set_y" -> set_y(v, u)
      [] name = "set_z" -> set_z(v, u) [] name = "set_w" -> set_w(v, u)

\* The axis a setter replaces.
AxisOf(name) ==
    CASE name = "set_x" -> "x" [] name = "set_y" -> "y"
      [] name = "set_z" -> "z" [] name = "set_w" -> "w"

SetterNames == {"set_x", "set_y", "set_z", "set_w"}

\* C7: v.set_a(u) returns a new vector whose component a is u and whose
\* other components are those of v; the receiver v is unchanged by the
\* call; and chained setters on distinct axes commute.
C7_SetReplacesOneComponent ==
    [][(op' \in SetterNames /\ pc = "ready") =>
          /\ a' = a
          /\ AxisOf(op') \in DOMAIN a
          /\ DOMAIN ret' = DOMAIN a
          /\ ret'[AxisOf(op')] = s
          /\ \A fld \in DOMAIN a \ {AxisOf(op')} : ret'[fld] = a[fld]
          /\ \A n2 \in setters(a) \ {op'} : \A u \in ShapeComp :
                CallSet(n2, ret', u) = CallSet(op', CallSet(n2, a, u), s)
      ]_vars

C7_Witness ==
    /\ pc = "done" /\ op = "set_z" /\ a = Vec4(0, 1, 0, 2) /\ s = 1
    /\ ret = Vec4(0, 1, 1, 2)

\* C8: extension and truncation preserve the existing components in order:
\* Vec2(x,y).vec3(z) == Vec3(x,y,z), Vec3(x,y,z).vec4(w) == Vec4(x,y,z,w),
\* xy() keeps (x,y) of a Vec3 and of a Vec4, xyz() keeps (x,y,z) of a Vec4;
\* truncation undoes extension and Vec4.xy() == Vec4.xyz().xy().
C8_ExtendTruncate ==
    pc = "done" =>
        /\ op = "vec3" => (ret = Vec3(a.x, a.y, s) /\ xy(ret) = a)
        /\ op = "vec4" => (ret = Vec4(a.x, a.y, a.z, s) /\ xyz(ret) = a)
        /\ op = "xy" => (ret = Vec2(a.x, a.y)
                          /\ (dim(a) = 4 => ret = xy(xyz(a)))
                          /\ (dim(a) = 3 => vec3(ret, a.z) = a))
        /\ op = "xyz" => (ret = Vec3(a.x, a.y, a.z) /\ vec4(ret, a.w) = a
                           /\ xy(ret) = xy(a))

C8_Witness ==
    /\ pc = "done" /\ op = "xyz" /\ a = Vec4(0, 1, 2, 1)
    /\ ret = Vec3(0, 1, 2)

\* C9 as stated: a Vec2 offers a single call vec4(z, w) that yields
\* Vec4(x, y, z, w) directly.
C9_Vec2HasVec4 ==
    (pc = "ready" /\ dim(a) = 2) =>
        /\ <<"vec4", 2>> \in cvt(a)
        /\ ENABLED (NextShape /\ dim(ret') = 4 /\ ret'.x = a.x /\ ret'.y = a.y)

\* C9 as amended: the only extension a Vec2 offers is vec3(z), every call
\* on a Vec2 returns a vector of at most 3 components, and Vec4(x, y, z, w)
\* is reached by vec3(z) followed by Vec3's vec4(w).
C9_Vec2ExtendsInTwoSteps ==
    /\ dim(a) = 2 => cvt(a) = {<<"vec3", 1>>}
    /\ (pc = "done" /\ dim(a) = 2) => dim(ret) <= 3
    /\ (pc = "done" /\ op = "vec3") =>
          /\ dim(a) = 2
          /\ <<"vec4", 1>> \in cvt(ret)
          /\ \A w \in ShapeComp : vec4(ret, w) = Vec4(a.x, a.y, s, w)

C9_Witness ==
    /\ pc = "done" /\ op = "vec3" /\ a = Vec2(1, 2) /\ s = 0
    /\ ret = Vec3(1, 2, 0) /\ vec4(ret, 1) = Vec4(1, 2, 0, 1)

(***************************************************************************)
(* The scalar kinds (num/mod.rs).                                          *)
(*                                                                         *)
(* ty is "i32" or "f32"; the 64-bit kinds come from the same macros.       *)
(*                                                                         *)
(* An integer is a two's complement number of IntBits bits.  Arithmetic    *)
(* that leaves the range panics in a build with overflow checks ("debug")  *)
(* and wraps in a build without ("release"); division and remainder panic  *)
(* in every build on a zero divisor and on IMin / -1.  A panic is the      *)
(* out-of-range marker Panic, which every later operation passes on.       *)
(*                                                                         *)
(* A float is the number n / FQ for an integer n of magnitude at most      *)
(* FMax, or one of FInf, -FInf, FNaN.  Products, quotients and square      *)
(* roots are rounded to the nearest representable number (ties to even),   *)
(* so small products underflow to zero and large ones overflow to an       *)
(* infinity, as in IEEE 754.  The sign of zero is not represented.         *)
(***************************************************************************)
IntBits == 8

IMin == 0 - 2 ^ (IntBits - 1)

IMax == 2 ^ (IntBits - 1) - 1

Panic == 2 ^ IntBits

InRange(x) == IMin <= x /\ x <= IMax

wrap(x) == ((x - IMin) % (2 ^ IntBits)) + IMin

\* The result x of an integer +, -, *, negation or abs.
overflowing(x) ==
    IF InRange(x) THEN x ELSE IF build = "debug" THEN Panic ELSE wrap(x)

Abs(x) == IF x < 0 THEN 0 - x ELSE x

Sgn(x) == IF x < 0 THEN 0 - 1 ELSE 1

\* Integer division truncating toward zero, and its remainder.
TruncDiv(x, y) == Sgn(x) * Sgn(y) * (Abs(x) \div Abs(y))

TruncRem(x, y) == Sgn(x) * (Abs(x) % Abs(y))

i_add(x, y) == IF Panic \in {x, y} THEN Panic ELSE overflowing(x + y)

i_sub(x, y) == IF Panic \in {x, y} THEN Panic ELSE overflowing(x - y)

i_mul(x, y) == IF Panic \in {x, y} THEN Panic ELSE overflowing(x * y)

i_neg(x) == IF x = Panic THEN Panic ELSE overflowing(0 - x)

i_abs(x) == IF x = Panic THEN Panic ELSE overflowing(Abs(x))

i_div(x, y) ==
    IF Panic \in {x, y} \/ y = 0 \/ (x = IMin /\ y = 0 - 1) THEN Panic
    ELSE TruncDiv(x, y)

i_rem(x, y) ==
    IF Panic \in {x, y} \/ y = 0 \/ (x = IMin /\ y = 0 - 1) THEN Panic
    ELSE TruncRem(x, y)

\* Fixed-point scale and largest finite numerator of the float kind.
FQ == 2

FMax == 8

FInf == FMax + 1

FNaN == FMax + 2

f_is_nan(x) == x = FNaN

f_is_infinite(x) == x = FInf \/ x = 0 - FInf

f_is_finite(x) == ~f_is_nan(x) /\ ~f_is_infinite(x)

\* A finite result n after rounding: beyond FMax it overflows to infinity.
f_fin(n) == IF n > FMax THEN FInf ELSE IF n < 0 - FMax THEN 0 - FInf ELSE n

\* p / q rounded to the nearest integer, ties to even.
RoundDiv(p, q) ==
    LET fl == Abs(p) \div Abs(q)
        r2 == 2 * (Abs(p) % Abs(q))
        up == r2 > Abs(q) \/ (r2 = Abs(q) /\ fl % 2 = 1)
    IN  Sgn(p) * Sgn(q) * (IF up THEN fl + 1 ELSE fl)

\* The integer nearest to the square root of n >= 0.
RoundSqrt(n) ==
    LET r == CHOOSE k \in 0..n : k * k <= n /\ (k + 1) * (k + 1) > n
    IN  IF n - r * r > r THEN r + 1 ELSE r

f_neg(x) == IF f_is_nan(x) THEN FNaN ELSE 0 - x

f_abs(x) == IF f_is_nan(x) THEN FNaN ELSE Abs(x)

f_add(x, y) ==
    IF f_is_nan(x) \/ f_is_nan(y) THEN FNaN
    ELSE IF f_is_infinite(x) /\ f_is_infinite(y) THEN (IF x = y THEN x ELSE FNaN)
    ELSE IF f_is_infinite(x) THEN x
    ELSE IF f_is_infinite(y) THEN y
    ELSE f_fin(x + y)

f_sub(x, y) == f_add(x, f_neg(y))

f_mul(x, y) ==
    IF f_is_nan(x) \/ f_is_nan(y) THEN FNaN
    ELSE IF f_is_infinite(x) \/ f_is_infinite(y)
         THEN (IF x = 0 \/ y = 0 THEN FNaN ELSE Sgn(x) * Sgn(y) * FInf)
    ELSE f_fin(RoundDiv(x * y, FQ))

f_div(x, y) ==
    IF f_is_nan(x) \/ f_is_nan(y) THEN FNaN
    ELSE IF f_is_infinite(x)
         THEN (IF f_is_infinite(y) THEN FNaN ELSE Sgn(x) * Sgn(y) * FInf)
    ELSE IF f_is_infinite(y) THEN 0
    ELSE IF y = 0 THEN (IF x = 0 THEN FNaN ELSE Sgn(x) * FInf)
    ELSE f_fin(RoundDiv(x * FQ, y))

f_rem(x, y) ==
    IF f_is_nan(x) \/ f_is_nan(y) \/ f_is_infinite(x) \/ y = 0 THEN FNaN
    ELSE IF f_is_infinite(y) THEN x
    ELSE TruncRem(x, y)

f_sqrt(x) ==
    IF f_is_nan(x) \/ x < 0 THEN FNaN
    ELSE IF x = FInf THEN FInf
    ELSE f_fin(RoundSqrt(x * FQ))

f_eq(x, y) == ~f_is_nan(x) /\ ~f_is_nan(y) /\ x = y

f_lt(x, y) == ~f_is_nan(x) /\ ~f_is_nan(y) /\ x < y

\* Zero::zero and One::one (the default value of a scalar is its zero).
T_zero == 0

T_one == IF ty = "i32" THEN 1 ELSE FQ

\* The operators the Scalar trait requires of T.
T_add(x, y) == IF ty = "i32" THEN i_add(x, y) ELSE f_add(x, y)

T_sub(x, y) == IF ty = "i32" THEN i_sub(x, y) ELSE f_sub(x, y)

T_mul(x, y) == IF ty = "i32" THEN i_mul(x, y) ELSE f_mul(x, y)

T_div(x, y) == IF ty = "i32" THEN i_div(x, y) ELSE f_div(x, y)

T_rem(x, y) == IF ty = "i32" THEN i_rem(x, y) ELSE f_rem(x, y)

T_neg(x) == IF ty = "i32" THEN i_neg(x) ELSE f_neg(x)

T_abs(x) == IF ty = "i32" THEN i_abs(x) ELSE f_abs(x)

\* PartialEq and PartialOrd of T: ==, != and <.
T_eq(x, y) == IF ty = "i32" THEN x = y ELSE f_eq(x, y)

T_ne(x, y) == ~T_eq(x, y)

T_lt(x, y) == IF ty = "i32" THEN x < y ELSE f_lt(x, y)

T_le(x, y) == IF ty = "i32" THEN x <= y ELSE (f_lt(x, y) \/ f_eq(x, y))

T_gt(x, y) == T_lt(y, x)

T_ge(x, y) == T_le(y, x)

\* Min::min and Max::max: cmp::min / cmp::max for the integers,
\* if self < rhs { self } else { rhs } (and >) for the floats.
T_min_flipped(x, y) ==
    IF ty = "i32" THEN (IF Panic \in {x, y} THEN Panic ELSE IF y < x THEN x ELSE y)
    ELSE IF f_lt(y, x) THEN x ELSE y

T_min(x, y) ==
    IF ty = "i32" THEN (IF Panic \in {x, y} THEN Panic ELSE IF y < x THEN y ELSE x)
    ELSE IF f_lt(x, y) THEN x ELSE y

T_max(x, y) ==
    IF ty = "i32" THEN (IF Panic \in {x, y} THEN Panic ELSE IF y >= x THEN y ELSE x)
    ELSE IF f_lt(y, x) THEN x ELSE y

\* infix!(+ e, tail...): the sum of a list of expressions.
RECURSIVE infix_add(_)
infix_add(es) ==
    IF Len(es) = 1 THEN Head(es) ELSE T_add(Head(es), infix_add(Tail(es)))

\* infix!(|| ...) and infix!(&& ...).
infix_or(es) == \E i \in 1..Len(es) : es[i]

infix_and(es) == \A i \in 1..Len(es) : es[i]

(***************************************************************************)
(* Operations and operators of the vectors (macro vec!).                   *)
(***************************************************************************)
\* Self::default(): every component is the default of T.
default(self) == [fld \in DOMAIN self |-> T_zero]

\* impl ops::Add / Sub / Neg for $vec<T>.
add(self, rhs) == [fld \in DOMAIN self |-> T_add(self[fld], rhs[fld])]

sub(self, rhs) == [fld \in DOMAIN self |-> T_sub(self[fld], rhs[fld])]

neg(self) == [fld \in DOMAIN self |-> T_neg(self[fld])]

\* impl ops::Mul<T> / Div<T> / Rem<T> for $vec<T>: a scalar right-hand side.
mul(self, rhs) == [fld \in DOMAIN self |-> T_mul(self[fld], rhs)]

div_zero_guarded(self, rhs) ==
    IF T_eq(rhs, T_zero) THEN [fld \in DOMAIN self |-> T_zero]
    ELSE [fld \in DOMAIN self |-> T_div(self[fld], rhs)]

div(self, rhs) == [fld \in DOMAIN self |-> T_div(self[fld], rhs)]

rem(self, rhs) == [fld \in DOMAIN self |-> T_rem(self[fld], rhs)]

\* impl ops::Mul<$vec<T>> / Div / Rem for $vec<T>: a vector right-hand side.
mul_vec(self, rhs) == [fld \in DOMAIN self |-> T_mul(self[fld], rhs[fld])]

div_vec(self, rhs) == [fld \in DOMAIN self |-> T_div(self[fld], rhs[fld])]

rem_vec(self, rhs) == [fld \in DOMAIN self |-> T_rem(self[fld], rhs[fld])]

abs(self) == [fld \in DOMAIN self |-> T_abs(self[fld])]

min(self, rhs) == [fld \in DOMAIN self |-> T_min(self[fld], rhs[fld])]

max(self, rhs) == [fld \in DOMAIN self |-> T_max(self[fld], rhs[fld])]

mul_add_scales_sum(self, vec, scale) ==
    [fld \in DOMAIN self |-> T_mul(T_add(self[fld], vec[fld]), scale)]

mul_add(self, vec, scale) ==
    [fld \in DOMAIN self |-> T_add(self[fld], T_mul(vec[fld], scale))]

sqr(self) == [fld \in DOMAIN self |-> T_mul(self[fld], self[fld])]

len_sqr(self) == infix_add(comps(sqr(self)))

len(self) == f_sqrt(len_sqr(self))

dist_sqr(self, to) ==
    infix_add(comps([fld \in DOMAIN self |->
        T_mul(T_sub(to[fld], self[fld]), T_sub(to[fld], self[fld]))]))

hadd(self) == infix_add(comps(self))

dot(self, rhs) == infix_add(comps(mul_vec(self, rhs)))

norm_unguarded(self) ==
    [val |-> div(self, len(self)), divs |-> dim(self)]

\* norm: [val, divs], the result and the number of scalar divisions made.
norm(self) ==
    LET self_len == len(self)
    IN  IF T_eq(self_len, T_zero)
        THEN [val |-> default(self), divs |-> 0]
        ELSE [val |-> div(self, self_len), divs |-> dim(self)]

resize_unguarded(self, l) ==
    [val |-> mul(self, T_div(l, len(self))), divs |-> 1]

\* resize: [val, divs], the result and the number of scalar divisions made.
resize(self, l) ==
    LET self_len == len(self)
    IN  IF T_eq(self_len, T_zero)
        THEN [val |-> default(self), divs |-> 0]
        ELSE [val |-> mul(self, T_div(l, self_len)), divs |-> 1]

\* The float components and the lengths handed to norm and resize: zero,
\* the smallest positive number, -1.0, the largest finite number, infinity
\* and NaN.
FloatComp == {0, 1, 0 - FQ, FMax, FInf, FNaN}

FloatLens == {0, FQ, 0 - (FQ + 1), FInf, FNaN}

InitFloat ==
    /\ pc = "ready" /\ op = "new"
    /\ ty = "f32" /\ build \in {"debug", "release"}
    /\ a \in Vecs(FloatComp) /\ b = a
    /\ s \in FloatLens
    /\ m = dup(a, FALSE)
    /\ f = "fst"
    /\ ret = 0 /\ st = "ok" /\ calls = <<>> /\ ndiv = 0

Norm ==
    /\ pc = "ready" /\ ty = "f32"
    /\ pc' = "done" /\ op' = "norm"
    /\ ret' = norm(a).val /\ ndiv' = norm(a).divs
    /\ st' = "ok" /\ calls' = <<>>
    /\ UNCHANGED operands

Resize ==
    /\ pc = "ready" /\ ty = "f32"
    /\ pc' = "done" /\ op' = "resize"
    /\ ret' = resize(a, s).val /\ ndiv' = resize(a, s).divs
    /\ st' = "ok" /\ calls' = <<>>
    /\ UNCHANGED operands

NextFloat == Norm \/ Resize

SpecFloat == InitFloat /\ [][NextFloat]_vars

\* C3: in every dimension norm() and resize(len) of a vector whose length
\* is exactly zero return the all-zero vector, for every requested len,
\* without dividing; for a vector of non-zero length norm returns
\* self / len(self) and resize returns self * (len / len(self)).
C3_ZeroLengthStaysZero ==
    (pc = "done" /\ op \in {"norm", "resize"}) =>
        /\ f_eq(len(a), 0) =>
              /\ \A fld \in DOMAIN a : ret[fld] = 0
              /\ DOMAIN ret = DOMAIN a
              /\ ndiv = 0
        /\ (\A fld \in DOMAIN a : a[fld] = 0) => f_eq(len(a), 0)
        /\ (~f_eq(len(a), 0) /\ op = "norm") =>
              \A fld \in DOMAIN a : ret[fld] = f_div(a[fld], len(a))
        /\ (~f_eq(len(a), 0) /\ op = "resize") =>
              \A fld \in DOMAIN a : ret[fld] = f_mul(a[fld], f_div(s, len(a)))

C3_Witness ==
    /\ pc = "done" /\ op = "resize" /\ s = FInf
    /\ a = Vec3(0, 1, 0) /\ len(a) = 0
    /\ ret = Vec3(0, 0, 0) /\ ndiv = 0

(***************************************************************************)
(* Comparison masks and their reductions.                                  *)
(***************************************************************************)
eq_by_identity(self, rhs) == [fld \in DOMAIN self |-> self[fld] = rhs[fld]]

eq(self, rhs) == [fld \in DOMAIN self |-> T_eq(self[fld], rhs[fld])]

ne(self, rhs) == [fld \in DOMAIN self |-> T_ne(self[fld], rhs[fld])]

lt(self, rhs) == [fld \in DOMAIN self |-> T_lt(self[fld], rhs[fld])]

le(self, rhs) == [fld \in DOMAIN self |-> T_le(self[fld], rhs[fld])]

gt(self, rhs) == [fld \in DOMAIN self |-> T_gt(self[fld], rhs[fld])]

ge(self, rhs) == [fld \in DOMAIN self |-> T_ge(self[fld], rhs[fld])]

any(self) == infix_or(comps(self))

all(self) == infix_and(comps(self))

none_as_not_all(self) == ~all(self)

none(self) == ~any(self)

\* The components compared: -1, 0, 1 of the integers; 0.0, 1.0 and NaN of
\* the floats.
CmpComp(t) == IF t = "i32" THEN {0 - 1, 0, 1} ELSE {0, FQ, FNaN}

InitCmp ==
    /\ pc = "ready" /\ op = "new"
    /\ ty \in {"i32", "f32"} /\ build = "release"
    /\ a \in Vecs(CmpComp(ty))
    /\ b \in VecsOf(dim(a), CmpComp(ty))
    /\ s = 0
    /\ m = dup(a, FALSE)
    /\ f = "fst"
    /\ ret = 0 /\ st = "ok" /\ calls = <<>> /\ ndiv = 0

Eq == Returns("eq", eq(a, b))

Ne == Returns("ne", ne(a, b))

Lt == Returns("lt", lt(a, b))

Le == Returns("le", le(a, b))

Gt == Returns("gt", gt(a, b))

Ge == Returns("ge", ge(a, b))

NextCmp == Eq \/ Ne \/ Lt \/ Le \/ Gt \/ Ge

SpecCmp == InitCmp /\ [][NextCmp]_vars

HasNaN(v) == ty = "f32" /\ \E fld \in DOMAIN v : v[fld] = FNaN

\* C4 as stated: for every vector v of every scalar kind v.eq(v).all() is
\* true and v.lt(v).any() is false.
C4_SelfComparison ==
    (pc = "done" /\ a = b) =>
        /\ op = "eq" => all(ret)
        /\ op = "lt" => ~any(ret)

\* C4 as amended: v.eq(v).all() is true exactly when v has no NaN component
\* (so for every integer vector and every float vector free of NaN), and
\* v.lt(v).any() is false for every v.
C4_SelfComparisonWithoutNaN ==
    (pc = "done" /\ a = b) =>
        /\ op = "eq" => (all(ret) <=> ~HasNaN(a))
        /\ op = "eq" =>
              \A fld \in DOMAIN a : ret[fld] = ~(ty = "f32" /\ a[fld] = FNaN)
        /\ op = "lt" => ~any(ret)

C4_Witness ==
    /\ pc = "done" /\ op = "eq" /\ ty = "f32"
    /\ a = Vec3(FQ, 0, FQ) /\ b = a /\ all(ret)

(***************************************************************************)
(* Arithmetic on integer and float vectors.                                *)
(***************************************************************************)
\* ops!(Vec2): hsub, ccw, cw and cross.  ops!(Vec3): cross.
hsub(self) == T_sub(self.x, self.y)

ccw_mirrored(self) == [x |-> T_neg(self.y), y |-> self.x]

ccw(self) == [x |-> self.y, y |-> T_neg(self.x)]

cw(self) == [x |-> T_neg(self.y), y |-> self.x]

cross_y_negated(self, rhs) ==
    CASE dim(self) = 2 ->
            T_sub(T_mul(self.x, rhs.y), T_mul(self.y, rhs.x))
      [] dim(self) = 3 ->
            [x |-> T_sub(T_mul(self.y, rhs.z), T_mul(self.z, rhs.y)),
             y |-> T_sub(T_mul(self.x, rhs.z), T_mul(self.z, rhs.x)),
             z |-> T_sub(T_mul(self.x, rhs.y), T_mul(self.y, rhs.x))]

cross(self, rhs) ==
    CASE dim(self) = 2 ->
            T_sub(T_mul(self.x, rhs.y), T_mul(self.y, rhs.x))
      [] dim(self) = 3 ->
            [x |-> T_sub(T_mul(self.y, rhs.z), T_mul(self.z, rhs.y)),
             y |-> T_sub(T_mul(self.z, rhs.x), T_mul(self.x, rhs.z)),
             z |-> T_sub(T_mul(self.x, rhs.y), T_mul(self.y, rhs.x))]

\* Whether evaluating a scalar / a vector panicked.
ScalarPanicked(x) == ty = "i32" /\ x = Panic

VecPanicked(v) == ty = "i32" /\ \E fld \in DOMAIN v : v[fld] = Panic

\* A call whose value is the scalar x: it returns x, or unwinds.
CallScalar(name, x) ==
    /\ pc = "ready"
    /\ pc' = "done" /\ op' = name
    /\ st' = IF ScalarPanicked(x) THEN "panic" ELSE "ok"
    /\ ret' = x
    /\ calls' = <<>> /\ ndiv' = 0
    /\ UNCHANGED operands

\* A call whose value is the vector v: it returns v, or unwinds.
CallVec(name, v) ==
    /\ pc = "ready"
    /\ pc' = "done" /\ op' = name
    /\ st' = IF VecPanicked(v) THEN "panic" ELSE "ok"
    /\ ret' = IF VecPanicked(v) THEN Panic ELSE v
    /\ calls' = <<>> /\ ndiv' = 0
    /\ UNCHANGED operands

\* The components of the operands of the arithmetic: the extremes, zero
\* and the units of the integers; zero, the smallest positive number, -1.0,
\* the largest finite number, infinity and NaN of the floats.  The larger
\* vectors take fewer values.
ArithComp(t, n) ==
    IF t = "i32"
    THEN CASE n = 2 -> {IMin, 0 - 1, 0, 1, IMax}
           [] n = 3 -> {IMin, 0 - 1, 0}
           [] n = 4 -> {IMin, 0}
    ELSE CASE n = 2 -> {0, 1, 0 - FQ, FMax, FInf, FNaN}
           [] n = 3 -> {0, FMax, FNaN}
           [] n = 4 -> {0, FInf}

ArithScalar(t) == IF t = "i32" THEN {IMin, 0 - 1, 0, 2} ELSE {0, FQ, FInf, FNaN}

InitArith ==
    /\ pc = "ready" /\ op = "new"
    /\ ty \in {"i32", "f32"} /\ build \in {"debug", "release"}
    /\ \E n \in 2..4 : /\ a \in VecsOf(n, ArithComp(ty, n))
                       /\ b \in VecsOf(n, ArithComp(ty, n))
    /\ s \in ArithScalar(ty)
    /\ m = dup(a, FALSE)
    /\ f = "fst"
    /\ ret = 0 /\ st = "ok" /\ calls = <<>> /\ ndiv = 0

Add == CallVec("add", add(a, b))

Sub == CallVec("sub", sub(a, b))

Neg == CallVec("neg", neg(a))

Mul == CallVec("mul", mul(a, s))

Div == CallVec("div", div(a, s))

Rem == CallVec("rem", rem(a, s))

MulVec == CallVec("mul_vec", mul_vec(a, b))

DivVec == CallVec("div_vec", div_vec(a, b))

RemVec == CallVec("rem_vec", rem_vec(a, b))

AbsOp == CallVec("abs", abs(a))

Min == CallVec("min", min(a, b))

Max == CallVec("max", max(a, b))

MulAdd == CallVec("mul_add", mul_add(a, b, s))

Sqr == CallVec("sqr", sqr(a))

Dot == CallScalar("dot", dot(a, b))

LenSqr == CallScalar("len_sqr", len_sqr(a))

DistSqr == CallScalar("dist_sqr", dist_sqr(a, b))

Hadd == CallScalar("hadd", hadd(a))

Cross2 == dim(a) = 2 /\ CallScalar("cross", cross(a, b))

Cross3 == dim(a) = 3 /\ CallVec("cross", cross(a, b))

NextArith ==
    \/ Add \/ Sub \/ Neg \/ Mul \/ Div \/ Rem \/ MulVec \/ DivVec \/ RemVec
    \/ AbsOp \/ Min \/ Max \/ MulAdd \/ Sqr
    \/ Dot \/ LenSqr \/ DistSqr \/ Hadd \/ Cross2 \/ Cross3

SpecArith == InitArith /\ [][NextArith]_vars

\* The operations that divide, and the divisor of component fld.
DivOps == {"div", "rem", "div_vec", "rem_vec"}

Divisor(fld) == IF op \in {"div", "rem"} THEN s ELSE b[fld]

\* The exact (unbounded) intermediate results of component fld of the
\* component-wise operations.
Exact(fld) ==
    CASE op = "add" -> {a[fld] + b[fld]}
      [] op = "sub" -> {a[fld] - b[fld]}
      [] op = "neg" -> {0 - a[fld]}
      [] op = "abs" -> {Abs(a[fld])}
      [] op = "mul" -> {a[fld] * s}
      [] op = "mul_vec" -> {a[fld] * b[fld]}
      [] op = "sqr" -> {a[fld] * a[fld]}
      [] op = "mul_add" -> {b[fld] * s, a[fld] + b[fld] * s}
      [] OTHER -> {}

ComponentWiseOps == {"add", "sub", "neg", "abs", "mul", "mul_vec", "sqr", "mul_add"}

RECURSIVE SumSeq(_)
SumSeq(es) == IF es = <<>> THEN 0 ELSE Head(es) + SumSeq(Tail(es))

\* An upper bound of the magnitude of every exact intermediate result of
\* the operations that add up terms, whatever the order of the additions.
Magnitude ==
    CASE op = "hadd" -> SumSeq([i \in 1..dim(a) |-> Abs(comps(a)[i])])
      [] op = "dot" -> SumSeq([i \in 1..dim(a) |-> Abs(comps(a)[i] * comps(b)[i])])
      [] op = "len_sqr" -> SumSeq([i \in 1..dim(a) |-> comps(a)[i] * comps(a)[i]])
      [] op = "dist_sqr" ->
            SumSeq([i \in 1..dim(a) |->
                (Abs(comps(a)[i]) + Abs(comps(b)[i])) * (Abs(comps(a)[i]) + Abs(comps(b)[i]))])
      [] op = "cross" /\ dim(a) = 2 -> Abs(a.x * b.y) + Abs(a.y * b.x)
      [] op = "cross" /\ dim(a) = 3 ->
            Abs(a.x * b.y) + Abs(a.y * b.x) + Abs(a.y * b.z) + Abs(a.z * b.y)
                + Abs(a.z * b.x) + Abs(a.x * b.z)
      [] OTHER -> 0

SummingOps == {"hadd", "dot", "len_sqr", "dist_sqr", "cross"}

\* C5 as stated: every operation is total -- each arithmetic operator and
\* each method returns a value for every input of the built-in kinds,
\* a zero divisor, the minimum integer and overflowing operands included.
C5_EveryOperationReturns ==
    pc = "done" => st = "ok"

\* C5 as amended: on float vectors every operation returns a value.  On
\* integer vectors / and % panic, in every build, exactly when a divisor
\* is zero or a component is the minimum integer and its divisor -1; min
\* and max always return; the other operations always return (wrapping)
\* in a build without overflow checks and, in a build with them, panic
\* exactly when an exact intermediate result of a component leaves the
\* integer range (component-wise operations) and only when the magnitudes
\* of the terms added up exceed the largest integer (hadd, dot, len_sqr,
\* dist_sqr, cross).
C5_ReturnsUnlessIntegerPanic ==
    pc = "done" =>
        /\ ty = "f32" => st = "ok"
        /\ (ty = "i32" /\ op \in DivOps) =>
              (st = "panic" <=>
                  \E fld \in DOMAIN a :
                      \/ Divisor(fld) = 0
                      \/ (a[fld] = IMin /\ Divisor(fld) = 0 - 1))
        /\ op \in {"min", "max"} => st = "ok"
        /\ (build = "release" /\ op \notin DivOps) => st = "ok"
        /\ (ty = "i32" /\ build = "debug" /\ op \in ComponentWiseOps) =>
              (st = "panic" <=>
                  \E fld \in DOMAIN a : \E x \in Exact(fld) : ~InRange(x))
        /\ (ty = "i32" /\ build = "debug" /\ op \in SummingOps /\ Magnitude <= IMax) =>
              st = "ok"

C5_Witness ==
    /\ pc = "done" /\ op = "div_vec" /\ ty = "i32" /\ build = "release"
    /\ a = Vec3(IMin, 0, 0 - 1) /\ b = Vec3(0 - 1, IMin, IMin)
    /\ st = "panic"

(***************************************************************************)
(* The cross products.                                                     *)
(***************************************************************************)
\* Integer components handed to cross are the extremes and
\* -MaxCrossComp..MaxCrossComp.
MaxCrossComp == 1

CrossComp(t) ==
    IF t = "i32" THEN {IMin, IMax} \cup ((0 - MaxCrossComp)..MaxCrossComp)
    ELSE {0, FQ, FMax, FInf, FNaN}

\* The operands of the doc test (vec.rs:177-180).
CrossExamples ==
    {<<Vec2(3, 4), Vec2(0 - 1, 2)>>, <<Vec3(3, 0 - 3, 1), Vec3(4, 9, 1)>>}

InitCross ==
    /\ pc = "ready" /\ op = "new"
    /\ ty \in {"i32", "f32"}
    /\ build \in (IF ty = "i32" THEN {"debug", "release"} ELSE {"release"})
    /\ \/ \E n \in 2..3 : /\ a \in VecsOf(n, CrossComp(ty))
                          /\ b \in VecsOf(n, CrossComp(ty))
       \/ (ty = "i32" /\ \E e \in CrossExamples : a = e[1] /\ b = e[2])
    /\ s = 0
    /\ m = dup(a, FALSE)
    /\ f = "fst"
    /\ ret = 0 /\ st = "ok" /\ calls = <<>> /\ ndiv = 0

\* Vec3::cross(a.vec3(0), b.vec3(0)) of two Vec2.
CrossEmbedded ==
    /\ dim(a) = 2
    /\ CallVec("cross_embedded", cross(vec3(a, T_zero), vec3(b, T_zero)))

NextCross == Cross2 \/ Cross3 \/ CrossEmbedded

SpecCross == InitCross /\ [][NextCross]_vars

AllFinite(v) == ty = "i32" \/ \A fld \in DOMAIN v : f_is_finite(v[fld])

\* The determinant expansion over the unbounded integers.
Determinant(u, v) ==
    Vec3(u.y * v.z - u.z * v.y, u.z * v.x - u.x * v.z, u.x * v.y - u.y * v.x)

\* C10 as stated: Vec2::cross(a, b) is the z component of
\* Vec3::cross(a.vec3(0), b.vec3(0)), whose x and y components are both 0;
\* Vec3::cross is the determinant expansion; cross((3,4),(-1,2)) == 10 and
\* cross((3,-3,1),(4,9,1)) == (-12,1,39).
C10_CrossEmbedding ==
    (pc = "done" /\ st = "ok") =>
        /\ (op = "cross" /\ dim(a) = 2) =>
              LET e == cross(vec3(a, T_zero), vec3(b, T_zero))
              IN  ret = e.z /\ e.x = 0 /\ e.y = 0
        /\ op = "cross_embedded" => (ret.z = cross(a, b) /\ ret.x = 0 /\ ret.y = 0)
        /\ (op = "cross" /\ dim(a) = 3 /\ ty = "i32" /\ Magnitude <= IMax) =>
              ret = Determinant(a, b)
        /\ (op = "cross" /\ a = Vec2(3, 4) /\ b = Vec2(0 - 1, 2)) => ret = 10
        /\ (op = "cross" /\ a = Vec3(3, 0 - 3, 1) /\ b = Vec3(4, 9, 1)) =>
              ret = Vec3(0 - 12, 1, 39)

\* C10 as amended: Vec2::cross(a, b) is the z component of
\* Vec3::cross(a.vec3(0), b.vec3(0)) and panics exactly when that does; the
\* x and y components of that product are 0 when every component of a and
\* b is finite (always, for integers).  Vec3::cross is the determinant
\* expansion: exactly, when no intermediate result leaves the integer
\* range, and modulo 2^bits in a build without overflow checks.  The two
\* examples hold.
C10_CrossEmbeddingOfFinite ==
    /\ (pc = "done" /\ op = "cross" /\ dim(a) = 2) =>
          LET e == cross(vec3(a, T_zero), vec3(b, T_zero))
          IN  /\ st = "panic" <=> VecPanicked(e)
              /\ st = "ok" => ret = e.z
              /\ (st = "ok" /\ AllFinite(a) /\ AllFinite(b)) => (e.x = 0 /\ e.y = 0)
    /\ (pc = "done" /\ op = "cross_embedded") =>
          /\ st = "panic" <=> ScalarPanicked(cross(a, b))
          /\ st = "ok" => ret.z = cross(a, b)
          /\ (st = "ok" /\ AllFinite(a) /\ AllFinite(b)) => (ret.x = 0 /\ ret.y = 0)
    /\ (pc = "done" /\ op = "cross" /\ dim(a) = 3 /\ ty = "i32") =>
          /\ Magnitude <= IMax => (st = "ok" /\ ret = Determinant(a, b))
          /\ build = "release" =>
                (st = "ok" /\ \A fld \in DOMAIN ret :
                                  ret[fld] = wrap(Determinant(a, b)[fld]))
    /\ (pc = "done" /\ op = "cross" /\ a = Vec2(3, 4) /\ b = Vec2(0 - 1, 2)) =>
          (st = "ok" /\ ret = 10)
    /\ (pc = "done" /\ op = "cross" /\ a = Vec3(3, 0 - 3, 1) /\ b = Vec3(4, 9, 1)) =>
          (st = "ok" /\ ret = Vec3(0 - 12, 1, 39))

C10_Witness ==
    /\ pc = "done" /\ op = "cross" /\ st = "ok" /\ ty = "i32"
    /\ a = Vec3(3, 0 - 3, 1) /\ b = Vec3(4, 9, 1)
    /\ ret = Vec3(0 - 12, 1, 39)

(***************************************************************************)
(* The quarter turns of Vec2: ccw and cw.                                  *)
(***************************************************************************)
\* The components of the turned vectors: the extremes and small and
\* middling integers; zero, the smallest positive number, small and large
\* finite numbers, the infinities and NaN of the floats.
RotComp(t) ==
    IF t = "i32" THEN {IMin, 0 - 8, 0 - 3, 0 - 1, 0, 1, 3, 4, 8, IMax}
    ELSE {0 - FInf, 0 - FMax, 0 - FQ, 0 - 1, 0, 1, FQ, FMax, FInf, FNaN}

InitRot ==
    /\ pc = "ready" /\ op = "new"
    /\ ty \in {"i32", "f32"} /\ build \in {"debug", "release"}
    /\ a \in VecsOf(2, RotComp(ty))
    /\ b = a /\ s = 0
    /\ m = dup(a, FALSE)
    /\ f = "fst"
    /\ ret = 0 /\ st = "ok" /\ calls = <<>> /\ ndiv = 0

Ccw == CallVec("ccw", ccw(a))

Cw == CallVec("cw", cw(a))

NextRot == Ccw \/ Cw

SpecRot == InitRot /\ [][NextRot]_vars

\* len_sqr(a) is computed without leaving the integer range, or is a
\* finite float.
LenSqrExact ==
    IF ty = "i32" THEN a.x * a.x + a.y * a.y <= IMax
    ELSE f_is_finite(len_sqr(a))

native_min(x, y) ==
    IF ty = "f32" /\ f_is_nan(x) THEN y
    ELSE IF ty = "f32" /\ f_is_nan(y) THEN x
    ELSE IF x <= y THEN x ELSE y

native_max(x, y) ==
    IF ty = "f32" /\ f_is_nan(x) THEN y
    ELSE IF ty = "f32" /\ f_is_nan(y) THEN x
    ELSE IF x >= y THEN x ELSE y

\* Neither x nor y is NaN.
Ordered(x, y) == ty = "i32" \/ (~f_is_nan(x) /\ ~f_is_nan(y))

\* C12 as stated: min(a, b) is an operand that is <= both operands and
\* max(a, b) an operand that is >= both, equal to the native min / max of
\* the scalar kind and independent of the operand order, per component.
C12_MinMaxLaw ==
    (pc = "done" /\ op \in {"min", "max"}) =>
        /\ st = "ok"
        /\ \A fld \in DOMAIN a :
              /\ ret[fld] \in {a[fld], b[fld]}
              /\ op = "min" =>
                    /\ T_le(ret[fld], a[fld]) /\ T_le(ret[fld], b[fld])
                    /\ ret[fld] = native_min(a[fld], b[fld])
              /\ op = "max" =>
                    /\ T_ge(ret[fld], a[fld]) /\ T_ge(ret[fld], b[fld])
                    /\ ret[fld] = native_max(a[fld], b[fld])
        /\ op = "min" => ret = min(b, a)
        /\ op = "max" => ret = max(b, a)

\* C12 as amended: per component, for integers and for floats neither of
\* which is NaN, min(a, b) is an operand <= both and max(a, b) an operand
\* >= both, equal to the native min / max and independent of the operand
\* order.  When either float operand is NaN the result is the right-hand
\* operand: it depends on the order, is ordered against neither operand,
\* and differs from the native min / max whenever the left operand alone
\* is a number.
C12_MinMaxOfOrdered ==
    (pc = "done" /\ op \in {"min", "max"}) =>
        /\ st = "ok"
        /\ \A fld \in DOMAIN a :
              LET x == a[fld]
                  y == b[fld]
                  r == ret[fld]
                  swapped == IF op = "min" THEN min(b, a)[fld] ELSE max(b, a)[fld]
              IN  /\ r \in {x, y}
                  /\ (Ordered(x, y) /\ op = "min") =>
                        /\ T_le(r, x) /\ T_le(r, y)
                        /\ r = native_min(x, y) /\ r = swapped
                  /\ (Ordered(x, y) /\ op = "max") =>
                        /\ T_ge(r, x) /\ T_ge(r, y)
                        /\ r = native_max(x, y) /\ r = swapped
                  /\ ~Ordered(x, y) =>
                        /\ r = y /\ swapped = x
                        /\ ~T_le(r, x) \/ ~T_le(r, y)
                        /\ ~T_ge(r, x) \/ ~T_ge(r, y)
                        /\ (~f_is_nan(x)) =>
                              r # (IF op = "min" THEN native_min(x, y)
                                                ELSE native_max(x, y))

C12_Witness ==
    /\ pc = "done" /\ op = "min" /\ st = "ok" /\ ty = "i32"
    /\ a = Vec2(IMin, 1) /\ b = Vec2(0 - 1, 0)
    /\ ret = Vec2(IMin, 0)

(***************************************************************************)
(* Integer packing: a word of n lanes of LaneBits bits each, component 0   *)
(* in the least-significant bits.                                          *)
(***************************************************************************)
\* The width of a lane in the model (8, 16 or 32 in the library).
LaneBits == 2

LaneNames == <<"x", "y", "z", "w">>

\* The lanes of an n-component vector, from the least-significant.
LaneSeq(n) == IF n = 2 THEN <<"x", "y">> ELSE LaneNames

Lanes(bits) == 0..(2 ^ bits - 1)

Words(n, bits) == 0..(2 ^ (n * bits) - 1)

RECURSIVE pack_lanes(_, _)
pack_lanes(es, bits) ==
    IF es = <<>> THEN 0 ELSE Head(es) + (2 ^ bits) * pack_lanes(Tail(es), bits)

\* pack with the lanes in the opposite order: component 0 most significant.
pack_big_endian(self, bits) ==
    LET es == comps(self)
    IN  pack_lanes([i \in 1..Len(es) |-> es[Len(es) + 1 - i]], bits)

\* pack(self): the word whose k-th lane is the k-th component.
pack(self, bits) == pack_lanes(comps(self), bits)

\* unpack8 / unpack16 / unpack32: the n lanes of the word w.
unpack(w, n, bits) ==
    [fld \in {LaneSeq(n)[i] : i \in 1..n} |->
        LET k == CHOOSE i \in 1..n : LaneSeq(n)[i] = fld
        IN  (w \div (2 ^ ((k - 1) * bits))) % (2 ^ bits)]

\* Either a vector to pack or a word to unpack into the shape of a.
InitPack ==
    /\ pc = "ready" /\ op = "new"
    /\ ty = "uint" /\ build = "release"
    /\ \E n \in {2, 4} :
          \/ a \in VecsOf(n, Lanes(LaneBits)) /\ s = 0
          \/ a \in VecsOf(n, {0}) /\ s \in Words(n, LaneBits)
    /\ b = a
    /\ m = dup(a, FALSE)
    /\ f = "fst"
    /\ ret = 0 /\ st = "ok" /\ calls = <<>> /\ ndiv = 0

Pack == Returns("pack", pack(a, LaneBits))

Unpack == Returns("unpack", unpack(s, dim(a), LaneBits))

NextPack == Pack \/ Unpack

SpecPack == InitPack /\ [][NextPack]_vars

\* C13: pack and unpack are exact inverses with component 0 in the
\* least-significant bits: unpack(pack(v)) == v for every vector of 2 or 4
\* lanes and pack(unpack(w)) == w for every word, every lane and word
\* staying in its range; with 8-bit lanes, unpack8(0x7FC08040) ==
\* (0x40, 0x80, 0xC0, 0x7F).
C13_PackUnpackRoundTrip ==
    /\ (pc = "done" /\ op = "pack") =>
          /\ ret \in Words(dim(a), LaneBits)
          /\ unpack(ret, dim(a), LaneBits) = a
          /\ ret % (2 ^ LaneBits) = a.x
          /\ (ret \div (2 ^ LaneBits)) % (2 ^ LaneBits) = a.y
    /\ (pc = "done" /\ op = "unpack") =>
          /\ \A fld \in DOMAIN ret : ret[fld] \in Lanes(LaneBits)
          /\ dim(ret) = dim(a)
          /\ pack(ret, LaneBits) = s
          /\ ret.x = s % (2 ^ LaneBits)
    /\ pc = "done" =>
          /\ unpack(2143322176, 4, 8) = Vec4(64, 128, 192, 127)
          /\ pack(Vec4(64, 128, 192, 127), 8) = 2143322176

C13_Witness ==
    /\ pc = "done" /\ op = "unpack" /\ dim(a) = 4
    /\ s = 2 ^ (4 * LaneBits) - 2 ^ LaneBits
    /\ ret = Vec4(0, 2 ^ LaneBits - 1, 2 ^ LaneBits - 1, 2 ^ LaneBits - 1)

(***************************************************************************)
(* The reductions any, all and none of a comparison mask.                  *)
(***************************************************************************)
MaskCmps == {"eq", "lt", "ge"}

\* The mask the comparison named c builds of self and rhs.
CmpMask(c, self, rhs) ==
    CASE c = "eq" -> eq(self, rhs)
      [] c = "lt" -> lt(self, rhs)
      [] c = "ge" -> ge(self, rhs)

\* The caller holds the mask m of the comparison f of a with b.
InitMask ==
    /\ pc = "ready" /\ op = "new"
    /\ ty \in {"i32", "f32"} /\ build = "release"
    /\ a \in Vecs(CmpComp(ty))
    /\ b \in VecsOf(dim(a), CmpComp(ty))
    /\ s = 0
    /\ f \in MaskCmps
    /\ m = CmpMask(f, a, b)
    /\ ret = 0 /\ st = "ok" /\ calls = <<>> /\ ndiv = 0

AnyOp == Returns("any", any(m))

AllOp == Returns("all", all(m))

NoneOp == Returns("none", none(m))

NextMask == AnyOp \/ AllOp \/ NoneOp

SpecMask == InitMask /\ [][NextMask]_vars

\* The component fld of the mask v, FALSE / TRUE where v has no such field.
OrAt(v, fld) == fld \in DOMAIN v /\ v[fld]

AndAt(v, fld) == fld \in DOMAIN v => v[fld]

\* The scalar comparison named c.
CmpAt(c, x, y) ==
    CASE c = "eq" -> T_eq(x, y)
      [] c = "lt" -> T_lt(x, y)
      [] c = "ge" -> T_ge(x, y)

\* C14: any() is the OR, all() the AND and none() the NOR of all the
\* components of a mask in every dimension; none() == !any() and
\* all() == (!m).none(); any / all of a comparison mask depend on every
\* component (the result follows a component when the others are neutral)
\* and are the OR / AND of the component comparisons, whatever the first
\* component says.
C14_MaskReductions ==
    pc = "done" =>
        /\ op = "any" =>
              /\ ret = (m.x \/ m.y \/ OrAt(m, "z") \/ OrAt(m, "w"))
              /\ ret = ~none(m)
              /\ ret = (\E fld \in DOMAIN a : CmpAt(f, a[fld], b[fld]))
              /\ \A fld \in DOMAIN m :
                    (\A o \in DOMAIN m \ {fld} : ~m[o]) => ret = m[fld]
        /\ op = "all" =>
              /\ ret = (m.x /\ m.y /\ AndAt(m, "z") /\ AndAt(m, "w"))
              /\ ret = none(not(m))
              /\ ret = (\A fld \in DOMAIN a : CmpAt(f, a[fld], b[fld]))
              /\ \A fld \in DOMAIN m :
                    (\A o \in DOMAIN m \ {fld} : m[o]) => ret = m[fld]
        /\ op = "none" =>
              /\ ret = ~(m.x \/ m.y \/ OrAt(m, "z") \/ OrAt(m, "w"))
              /\ ret = ~any(m)
              /\ ret = all(not(m))
        /\ (op = "any" /\ m = Vec2(TRUE, FALSE)) => ret
        /\ (op = "all" /\ m = Vec2(TRUE, TRUE)) => ret
        /\ (op = "none" /\ m = Vec2(FALSE, FALSE)) => ret

\* a is lexicographically greater than b, yet a.lt(b).any() is true.
C14_Witness ==
    /\ pc = "done" /\ op = "any" /\ f = "lt" /\ ty = "i32"
    /\ a = Vec3(1, 0, 0 - 1) /\ b = Vec3(0, 0, 0)
    /\ m = Vec3(FALSE, FALSE, TRUE) /\ ret = TRUE

(***************************************************************************)
(* map, map2, mask and masked with a stateful callable: one step of the    *)
(* machine per call of f.                                                  *)
(***************************************************************************)
\* Largest magnitude of a component handed to the callable.
MaxMapComp == 1

MapComp == (0 - MaxMapComp)..MaxMapComp

MapOps == {"map", "map2", "mask", "masked"}

struct_fields_reversed(self) ==
    [i \in 1..dim(self) |-> fields(self)[dim(self) + 1 - i]]

\* $vec { $($field: f(...)),+ }: the field initialisers of the struct
\* expression, evaluated in the order they are written.
struct_fields(self) == fields(self)

\* The arguments of the call of f for the field fld.
Args(name, self, rhs, fld) ==
    IF name \in {"map", "mask"} THEN <<self[fld]>>
    ELSE <<self[fld], rhs[fld]>>

\* The FnMut callable counts its calls: its k-th call (k calls made
\* before) combines k with the arguments, so equal arguments give
\* different results at different positions.
CallF(name, fn, k, args) ==
    LET v == IF Len(args) = 1 THEN Apply(fn, k, args[1])
             ELSE Apply(fn, Apply("mix", k, args[1]), args[2])
    IN  IF name \in {"mask", "masked"} THEN v > 0 ELSE v

InitMap ==
    /\ pc = "ready" /\ op = "new"
    /\ ty = "i32" /\ build = "release"
    /\ a \in Vecs(MapComp)
    /\ b \in VecsOf(dim(a), {0, 1})
    /\ s = 0
    /\ m = dup(a, FALSE)
    /\ f \in Fns
    /\ ret = 0 /\ st = "ok" /\ calls = <<>> /\ ndiv = 0

\* Entering the method: nothing of the result is built yet.
Begin(name) ==
    /\ pc = "ready"
    /\ pc' = Head(struct_fields(a)) /\ op' = name
    /\ ret' = <<>>
    /\ UNCHANGED <<st, calls, ndiv>>
    /\ UNCHANGED operands

Map == Begin("map")

Map2 == Begin("map2")

Mask == Begin("mask")

Masked == Begin("masked")

\* Evaluating the initialiser of the field pc: one call of f.
CallField ==
    /\ pc \in DOMAIN a
    /\ LET order == struct_fields(a)
           i     == CHOOSE j \in 1..Len(order) : order[j] = pc
           args  == Args(op, a, b, pc)
       IN  /\ calls' = Append(calls, args)
           /\ ret' = ret @@ (pc :> CallF(op, f, Len(calls), args))
           /\ pc' = IF i = Len(order) THEN "done" ELSE order[i + 1]
    /\ UNCHANGED <<op, st, ndiv>>
    /\ UNCHANGED operands

NextMap == Map \/ Map2 \/ Mask \/ Masked \/ CallField

SpecMap == InitMap /\ [][NextMap]_vars

DeclOrder == <<"x", "y", "z", "w">>

\* C15: map(f) with a stateful f calls f exactly once per component in
\* declaration order x, y, z, w and stores the k-th call's result in the
\* k-th component; map2, mask and masked follow the same order, pairing
\* same-named components.  At every point of the call the calls made are
\* the first components in order, and the call ends after dim calls.
C15_MapCallOrder ==
    op \in MapOps =>
        LET n == Len(calls)
        IN  /\ n <= dim(a)
            /\ \A k \in 1..n : calls[k] = Args(op, a, b, DeclOrder[k])
            /\ DOMAIN ret = {DeclOrder[k] : k \in 1..n}
            /\ \A k \in 1..n :
                  ret[DeclOrder[k]] = CallF(op, f, k - 1, calls[k])
            /\ pc = "done" <=> n = dim(a)
            /\ pc # "done" => pc = DeclOrder[n + 1]

\* map2 of a Vec3 with the counting callable |x, y| (2 * k + x) - y.
C15_Witness ==
    /\ pc = "done" /\ op = "map2" /\ f = "sub"
    /\ a = Vec3(1, 1, 1) /\ b = Vec3(0, 1, 0)
    /\ calls = <<(<<1, 0>>), (<<1, 1>>), (<<1, 0>>)>>
    /\ ret = Vec3(1, 2, 5)

(***************************************************************************)
(* Whole-vector equality and ordering: #[derive(PartialEq, PartialOrd)].   *)
(***************************************************************************)
\* PartialOrd::partial_cmp of T: None when an operand is NaN.
T_partial_cmp(x, y) ==
    IF ty = "f32" /\ (f_is_nan(x) \/ f_is_nan(y)) THEN "None"
    ELSE IF x < y THEN "Less"
    ELSE IF x = y THEN "Equal"
    ELSE "Greater"

\* The derived comparison chain: the first field whose comparison is not
\* Some(Equal) decides.
RECURSIVE cmp_chain(_, _)
cmp_chain(es, rs) ==
    IF es = <<>> THEN "Equal"
    ELSE LET c == T_partial_cmp(Head(es), Head(rs))
         IN  IF c = "Equal" THEN cmp_chain(Tail(es), Tail(rs)) ELSE c

partial_cmp_last_first(self, rhs) ==
    LET n == dim(self)
    IN  cmp_chain([i \in 1..n |-> comps(self)[n + 1 - i]],
                  [i \in 1..n |-> comps(rhs)[n + 1 - i]])

\* #[derive(PartialOrd)]: partial_cmp over the fields in declaration order.
partial_cmp(self, rhs) == cmp_chain(comps(self), comps(rhs))

\* #[derive(PartialEq)]: == is the && of the fields' ==, != the || of !=.
partial_eq(self, rhs) == \A i \in 1..dim(self) : T_eq(comps(self)[i], comps(rhs)[i])

partial_ne(self, rhs) == \E i \in 1..dim(self) : T_ne(comps(self)[i], comps(rhs)[i])

\* The provided methods gt and lt of PartialOrd.
partial_gt(self, rhs) == partial_cmp(self, rhs) = "Greater"

partial_lt(self, rhs) == partial_cmp(self, rhs) = "Less"

\* The components compared: -2, 1, 9 of the integers; 0.0, 1.0 and NaN of
\* the floats.
OrdComp(t) == IF t = "i32" THEN {0 - 2, 1, 9} ELSE {0, FQ, FNaN}

InitOrd ==
    /\ pc = "ready" /\ op = "new"
    /\ ty \in {"i32", "f32"} /\ build = "release"
    /\ a \in Vecs(OrdComp(ty))
    /\ b \in VecsOf(dim(a), OrdComp(ty))
    /\ s = 0
    /\ m = dup(a, FALSE)
    /\ f = "fst"
    /\ ret = 0 /\ st = "ok" /\ calls = <<>> /\ ndiv = 0

PartialEq == Returns("==", partial_eq(a, b))

PartialNe == Returns("!=", partial_ne(a, b))

PartialGt == Returns(">", partial_gt(a, b))

PartialLt == Returns("<", partial_lt(a, b))

NextOrd == PartialEq \/ PartialNe \/ PartialGt \/ PartialLt

SpecOrd == InitOrd /\ [][NextOrd]_vars

\* The positions, in declaration order, where a and b differ (a != b).
Differing == {k \in 1..dim(a) : T_ne(a[DeclOrder[k]], b[DeclOrder[k]])}

FirstDiffering == CHOOSE k \in Differing : \A j \in Differing : k <= j

\* C16: v == w exactly when v.eq(w).all() and v != w exactly when
\* v.ne(w).any(); v > w exactly when the first differing component (in
\* the order x, y, z, w) of v is greater, and v < w exactly when it is
\* less; Vec2(1, 9) > Vec2(1, -2).
C16_EqualityAndLexicographicOrder ==
    pc = "done" =>
        /\ op = "==" => (ret = all(eq(a, b)) /\ ret = (Differing = {}))
        /\ op = "!=" => (ret = any(ne(a, b)) /\ ret = (Differing # {}))
        /\ op = ">" =>
              ret = (/\ Differing # {}
                     /\ T_gt(a[DeclOrder[FirstDiffering]],
                             b[DeclOrder[FirstDiffering]]))
        /\ op = "<" =>
              ret = (/\ Differing # {}
                     /\ T_lt(a[DeclOrder[FirstDiffering]],
                             b[DeclOrder[FirstDiffering]]))
        /\ (op = ">" /\ a = Vec2(1, 9) /\ b = Vec2(1, 0 - 2)) => ret

\* The later components would say "less": the first differing one decides.
C16_Witness ==
    /\ pc = "done" /\ op = ">" /\ ty = "i32"
    /\ a = Vec3(1, 9, 0 - 2) /\ b = Vec3(1, 0 - 2, 9)
    /\ ret = TRUE

(***************************************************************************)
(* Concurrent callers.  Every method takes self and rhs by value: a call   *)
(* copies its arguments into its own frame, computes from the frame and    *)
(* returns.  Each of pc, op, a, b and ret is here a function of the        *)
(* caller; calls holds the frames; s is the memory outside the arguments.  *)
(***************************************************************************)
NumCallers == 2

Callers == 1..NumCallers

static_frame(c) == 1

\* The frame of the call made by caller c: its own copies of self and rhs.
frame(c) == c

\* The value of the method named name on the arguments in a frame.
Compute(name, self, rhs) ==
    CASE name = "add"   -> add(self, rhs)
      [] name = "mul"   -> mul_vec(self, rhs)
      [] name = "set_x" -> set_x(self, rhs.x)

ConcLeft == {Vec2(1, 2), Vec2(0 - 3, 4)}

ConcRight == {Vec2(5, 0), Vec2(0 - 1, 7)}

InitConc ==
    /\ pc = [c \in Callers |-> "ready"]
    /\ op = [c \in Callers |-> "new"]
    /\ ty = "i32" /\ build = "release"
    /\ a \in [Callers -> ConcLeft]
    /\ b \in [Callers -> ConcRight]
    /\ s = 0
    /\ m = FALSE
    /\ f = "fst"
    /\ ret = [c \in Callers |-> Vec2(0, 0)]
    /\ calls = [c \in Callers |->
                    [self |-> Vec2(0, 0), rhs |-> Vec2(0, 0), val |-> Vec2(0, 0)]]
    /\ st = "ok" /\ ndiv = 0

\* Caller c calls the method: the arguments are moved into the frame.
Enter(c, name) ==
    /\ pc[c] = "ready"
    /\ pc' = [pc EXCEPT ![c] = "called"]
    /\ op' = [op EXCEPT ![c] = name]
    /\ calls' = [calls EXCEPT ![frame(c)] = [self |-> a[c], rhs |-> b[c], val |-> Vec2(0, 0)]]
    /\ UNCHANGED <<ret, st, ndiv>>
    /\ UNCHANGED operands

CallAdd == \E c \in Callers : Enter(c, "add")

CallMul == \E c \in Callers : Enter(c, "mul")

CallSetX == \E c \in Callers : Enter(c, "set_x")

\* The body of the method evaluates its expression on the frame.
Body ==
    \E c \in Callers :
        /\ pc[c] = "called"
        /\ pc' = [pc EXCEPT ![c] = "computed"]
        /\ calls' = [calls EXCEPT ![frame(c)].val =
                        Compute(op[c], calls[frame(c)].self, calls[frame(c)].rhs)]
        /\ UNCHANGED <<op, ret, st, ndiv>>
        /\ UNCHANGED operands

\* The value is handed back to the caller.
Return ==
    \E c \in Callers :
        /\ pc[c] = "computed"
        /\ pc' = [pc EXCEPT ![c] = "done"]
        /\ ret' = [ret EXCEPT ![c] = calls[frame(c)].val]
        /\ UNCHANGED <<op, calls, st, ndiv>>
        /\ UNCHANGED operands

NextConc == CallAdd \/ CallMul \/ CallSetX \/ Body \/ Return

SpecConc == InitConc /\ [][NextConc]_vars

\* C17: in every interleaving of the callers' steps each caller obtains
\* exactly the result its call yields in isolation, no step changes an
\* operand value held by a caller, and no step writes the memory outside
\* the arguments.
C17_CallersDoNotInterfere ==
    [][/\ \A c \in Callers :
             pc'[c] = "done" => ret'[c] = Compute(op'[c], a'[c], b'[c])
       /\ a' = a /\ b' = b
       /\ s' = s]_vars

\* Caller 1 has its result while caller 2 is in the middle of a call on
\* other operands.
C17_Witness ==
    /\ pc[1] = "done" /\ op[1] = "mul"
    /\ a[1] = Vec2(1, 2) /\ b[1] = Vec2(0 - 1, 7) /\ ret[1] = Vec2(0 - 1, 14)
    /\ pc[2] = "computed" /\ op[2] = "add"
    /\ a[2] = Vec2(0 - 3, 4) /\ b[2] = Vec2(5, 0)

(***************************************************************************)
(* Scalar (broadcast) against component-wise forms of the operators.       *)
(***************************************************************************)
\* The call returned the value v of another expression, or both panicked.
Agrees(v) ==
    /\ st = "panic" <=> VecPanicked(v)
    /\ st = "ok" => ret = v

\* C18: on integer vectors the scalar forms of *, / and % give what the
\* vector forms give on the splatted scalar -- v * s == v * dup(s), and
\* for s != 0, v / s == v / dup(s) and v % s == v % dup(s) -- and
\* v.mul_add(u, s) == v + u * s; where one side panics (overflow under
\* overflow checks, the minimum integer divided by -1) so does the other.
C18_BroadcastAgreesWithVectorForm ==
    (pc = "done" /\ ty = "i32") =>
        /\ op = "mul" => Agrees(mul_vec(a, dup(a, s)))
        /\ (op = "div" /\ s # 0) => Agrees(div_vec(a, dup(a, s)))
        /\ (op = "rem" /\ s # 0) => Agrees(rem_vec(a, dup(a, s)))
        /\ op = "mul_add" => Agrees(add(a, mul(b, s)))

C18_Witness ==
    /\ pc = "done" /\ op = "rem" /\ ty = "i32" /\ st = "ok"
    /\ a = Vec2(IMin, 0 - 1) /\ s = 2
    /\ ret = Vec2(0, 0 - 1)
    /\ ret = rem_vec(a, Vec2(2, 2))

====
